---- MODULE Spec2Model ----
(***************************************************************************)
(* Model of netmikio.aioConnectHandler (src/netmikio/netmikio.py): an      *)
(* asyncio wrapper that runs every blocking Netmiko call on the default    *)
(* executor and awaits it.                                                 *)
(*                                                                         *)
(* One wrapper instance is shared by the cooperative tasks of Tasks.  A    *)
(* task runs `async with wrapper:` blocks, or calls a send method or       *)
(* __aexit__ directly.  Every coroutine of the class has exactly one await *)
(* (loop.run_in_executor), so each is modelled by two event-loop steps:    *)
(* the step that dispatches the blocking call and suspends, and the step   *)
(* that resumes with the call's outcome.  The worker thread contributes    *)
(* two steps per call: picking the call up (Start) and ending it (Finish). *)
(* A suspended task may be cancelled by its environment.                   *)
(*                                                                         *)
(* Values have one shape, [kind, type, msg, h]:                            *)
(*   kind  "return" or "raise"                                             *)
(*   type  the Python class of the value returned or raised                *)
(*   msg   the text (a str result, an exception's message)                 *)
(*   h     the identity of a connection object, 0 where there is none      *)
(* A single command string is carried as a one-element tuple, so that the  *)
(* argument of every send method has one type.                             *)
(***************************************************************************)
EXTENDS Integers, Sequences, FiniteSets, TLC

\* ---------------------------------------------------------------- bounds
\* operations (enter, send, exit) the tasks may issue altogether
MaxOps == 3

\* ---------------------------------------------------------------- domains
Tasks == {"t1", "t2"}

\* self.connection = None
None == 0

Configs ==
  { [ip |-> "10.0.0.1", device_type |-> "cisco_ios", username |-> "u", password |-> "p"],
    [ip |-> "10.0.0.2", device_type |-> "cisco_ios", username |-> "u", password |-> "q"] }
NoCfg == [ip |-> "", device_type |-> "", username |-> "", password |-> ""]

Commands == {"show run"}

\* command sequences for send_conf_set: one out of order with a repetition, one
\* empty
CommandLists == { << "show ver", "show run", "show ver" >>, << >> }

Methods == {"send_com", "send_conf_set", "send_com_timing"}

\* the arguments a caller may give to a send method
ArgsOf(method) ==
  IF method = "send_conf_set" THEN CommandLists ELSE {<< c >> : c \in Commands}

Outputs == {"Hostname: R1", "Router> "}

Out(kind, type, msg, h) == [kind |-> kind, type |-> type, msg |-> msg, h |-> h]
Return(type, msg, h) == Out("return", type, msg, h)
Raise(type, msg) == Out("raise", type, msg, 0)
NoOut == Out("none", "", "", 0)
ReturnNone == Return("NoneType", "", 0)

\* what the blocking library calls may raise
LibTimeout == Raise("NetmikoTimeoutException", "TCP connection to device failed.")
LibAuth == Raise("NetMikoAuthenticationException", "Authentication to device failed.")
LibOther == Raise("OSError", "Socket is closed")
LibExcs == {LibTimeout, LibAuth, LibOther}

\* what the body of an `async with` block may raise on its own
BodyExcs == {Raise("RuntimeError", "body failed")}

AttributeError == Raise("AttributeError", "'NoneType' object has no attribute")
CancelledError == Raise("CancelledError", "")

\* an executor call: the wrapper method that dispatched it and its argument,
\* the library operation, its progress ("pending" in the executor's queue,
\* "running" on a worker, "done"), the connection object it acts on, the
\* arguments it hands to the library, and its outcome
Call(method, marg, op, handle) ==
  [method |-> method, marg |-> marg, op |-> op, st |-> "pending", handle |-> handle,
   cfg |-> NoCfg, arg |-> << >>, out |-> NoOut]
NoCall == [Call("none", << >>, "none", None) EXCEPT !.st = "none"]

\* ---------------------------------------------------------------- state
VARIABLES
  kwargs,      \* the configuration the caller gave to the constructor
  host,        \* self.host
  connection,  \* self.connection: None or the identity of a connection object
  pc,          \* per task: "idle", "aenter", "body", "send", "aexit"
  inBlock,     \* per task: inside an `async with` block whose entry succeeded
  bexc,        \* per task: the exception that ends (ended) the block's body
  call,        \* per task: the executor call the task awaits
  invs,        \* per task: the library calls made for the awaited operation
  orphans,     \* library operations still running that no task awaits any more
  made,        \* connection objects created so far by the factory
  disc,        \* per connection object: how often its disconnect was invoked
  lost,        \* connection objects created by connect calls nobody awaited
  nops,        \* operations issued so far
  entered,     \* history: some entry has succeeded
  users,       \* history: the tasks that have called an operation
  last         \* history: the wrapper operation the latest step ended, if any

vars == << kwargs, host, connection, pc, inBlock, bexc, call, invs, orphans, made,
           disc, lost, nops, entered, users, last >>

\* the record of an ended wrapper operation: who called what with which
\* argument, inside a block or not, the library calls made for it, what the
\* caller got (out), and for __aenter__ / __aexit__ called by `async with`:
\* the body's exception (exc) and what the statement delivers (with)
Ended(t, method, marg, blocked, is, out, exc, with) ==
  [task |-> t, method |-> method, marg |-> marg, inBlock |-> blocked, invs |-> is,
   out |-> out, exc |-> exc, with |-> with]
NoLast == Ended("", "none", << >>, FALSE, << >>, NoOut, NoOut, NoOut)

\* ---------------------------------------------------------------- the class
\* NewWrapper with a fault: the password is masked before the configuration is stored
NewWrapperMasked(kw) == [host |-> [kw EXCEPT !.password = "****"], connection |-> None]

\* lines 28-30: __init__(self, **host)
NewWrapper(kw) == [host |-> kw, connection |-> None]

Init ==
  /\ kwargs \in Configs
  /\ host = NewWrapper(kwargs).host
  /\ connection = NewWrapper(kwargs).connection
  /\ pc = [t \in Tasks |-> "idle"]
  /\ inBlock = [t \in Tasks |-> FALSE]
  /\ bexc = [t \in Tasks |-> NoOut]
  /\ call = [t \in Tasks |-> NoCall]
  /\ invs = [t \in Tasks |-> << >>]
  /\ orphans = << >>
  /\ made = 0
  /\ disc = << >>
  /\ lost = {}
  /\ nops = 0
  /\ entered = FALSE
  /\ users = {}
  /\ last = NoLast

\* ---- __aenter__ ----------------------------------------------------------
\* line 35: the factory is called with the stored configuration, unpacked
FactoryArgs(self_host) == self_host

\* TranslateEnter with a fault: the timeout clause is missing
TranslateEnterNoTimeout(o) ==
  IF o.type = "NetMikoAuthenticationException"
    THEN Raise("aioConnectHandler.AuthenticationException", "Authentication failed.")
  ELSE o

\* TranslateEnter with a fault: the two clauses raise each other's exception
TranslateEnterSwapped(o) ==
  IF o.type = "NetmikoTimeoutException"
    THEN Raise("aioConnectHandler.AuthenticationException", "Authentication failed.")
  ELSE IF o.type = "NetMikoAuthenticationException"
    THEN Raise("aioConnectHandler.TimeoutException", "Connection timed out.")
  ELSE o

\* lines 38-42: the two except clauses; anything else is not caught
TranslateEnter(o) ==
  IF o.type = "NetmikoTimeoutException"
    THEN Raise("aioConnectHandler.TimeoutException", "Connection timed out.")
  ELSE IF o.type = "NetMikoAuthenticationException"
    THEN Raise("aioConnectHandler.AuthenticationException", "Authentication failed.")
  ELSE o

\* line 35, up to the await: the connect call goes to the executor
AEnterCall(t) ==
  /\ pc[t] = "idle"
  /\ nops < MaxOps
  /\ pc' = [pc EXCEPT ![t] = "aenter"]
  /\ call' = [call EXCEPT ![t] = Call("aenter", << >>, "connect", None)]
  /\ nops' = nops + 1
  /\ users' = users \cup {t}
  /\ last' = NoLast
  /\ UNCHANGED << kwargs, host, connection, inBlock, bexc, invs, orphans, made,
                  disc, lost, entered >>

\* lines 35-36: the await returned a connection object; it is stored and the
\* block's body begins
AEnterStore(t) ==
  /\ pc[t] = "aenter"
  /\ call[t].st = "done"
  /\ call[t].out.kind = "return"
  /\ connection' = call[t].out.h
  /\ pc' = [pc EXCEPT ![t] = "body"]
  /\ inBlock' = [inBlock EXCEPT ![t] = TRUE]
  /\ bexc' = [bexc EXCEPT ![t] = NoOut]
  /\ entered' = TRUE
  /\ last' = Ended(t, "aenter", << >>, FALSE, invs[t],
                   Return("aioConnectHandler", "self", 0), NoOut, NoOut)
  /\ call' = [call EXCEPT ![t] = NoCall]
  /\ invs' = [invs EXCEPT ![t] = << >>]
  /\ UNCHANGED << kwargs, host, orphans, made, disc, lost, nops, users >>

\* AEnterFail with a fault: __aenter__ swallows the failure and returns self,
\* so `async with` runs the body
AEnterFailSwallows(t) ==
  /\ pc[t] = "aenter"
  /\ call[t].st = "done"
  /\ call[t].out.kind = "raise"
  /\ pc' = [pc EXCEPT ![t] = "body"]
  /\ inBlock' = [inBlock EXCEPT ![t] = TRUE]
  /\ last' = Ended(t, "aenter", << >>, FALSE, invs[t],
                   Return("aioConnectHandler", "self", 0), NoOut, NoOut)
  /\ call' = [call EXCEPT ![t] = NoCall]
  /\ invs' = [invs EXCEPT ![t] = << >>]
  /\ UNCHANGED << kwargs, host, connection, bexc, orphans, made, disc, lost, nops,
                  entered, users >>

\* AEnterFail with a fault: a failing __aenter__ resets self.connection
AEnterFailClears(t) ==
  /\ pc[t] = "aenter"
  /\ call[t].st = "done"
  /\ call[t].out.kind = "raise"
  /\ connection' = None
  /\ pc' = [pc EXCEPT ![t] = "idle"]
  /\ last' = Ended(t, "aenter", << >>, FALSE, invs[t], TranslateEnter(call[t].out),
                   NoOut, TranslateEnter(call[t].out))
  /\ call' = [call EXCEPT ![t] = NoCall]
  /\ invs' = [invs EXCEPT ![t] = << >>]
  /\ UNCHANGED << kwargs, host, inBlock, bexc, orphans, made, disc, lost, nops,
                  entered, users >>

\* lines 35-42: the await raised; `async with` runs neither body nor exit
AEnterFail(t) ==
  /\ pc[t] = "aenter"
  /\ call[t].st = "done"
  /\ call[t].out.kind = "raise"
  /\ pc' = [pc EXCEPT ![t] = "idle"]
  /\ last' = Ended(t, "aenter", << >>, FALSE, invs[t], TranslateEnter(call[t].out),
                   NoOut, TranslateEnter(call[t].out))
  /\ call' = [call EXCEPT ![t] = NoCall]
  /\ invs' = [invs EXCEPT ![t] = << >>]
  /\ UNCHANGED << kwargs, host, connection, inBlock, bexc, orphans, made, disc,
                  lost, nops, entered, users >>

\* ---- send_com / send_conf_set / send_com_timing ----------------------------
\* UnderlyingOp with a fault: send_com_timing is an alias of send_com
UnderlyingOpAliased(method) ==
  CASE method = "send_com" -> "send_command"
    [] method = "send_conf_set" -> "send_config_set"
    [] method = "send_com_timing" -> "send_command"

\* lines 50, 54, 58: the library method each wrapper method calls
UnderlyingOp(method) ==
  CASE method = "send_com" -> "send_command"
    [] method = "send_conf_set" -> "send_config_set"
    [] method = "send_com_timing" -> "send_command_timing"

\* a sequence without the later occurrences of its elements
RECURSIVE Dedup(_)
Dedup(q) ==
  IF q = << >> THEN << >>
  ELSE LET front == Dedup(SubSeq(q, 1, Len(q) - 1))
           x == q[Len(q)]
       IN  IF \E i \in DOMAIN front : front[i] = x THEN front ELSE Append(front, x)

\* SendDispatch with a fault: repeated commands are sent once
SendDispatchDedup(method, a) ==
  [Call(method, a, UnderlyingOp(method), None) EXCEPT !.arg = Dedup(a)]

\* lines 50, 54, 58: the lambda handed to the executor; it reads
\* self.connection only when a worker runs it
SendDispatch(method, a) ==
  [Call(method, a, UnderlyingOp(method), None) EXCEPT !.arg = a]

\* SendResult with a fault: the send methods translate exceptions as __aenter__ does
SendResultTranslated(o) == TranslateEnter(o)

\* lines 50, 54, 58: `return await ...`: the call's result, or its exception
SendResult(o) == o

\* a send method is called, inside a block's body or directly
SendCall(t, method, a) ==
  /\ \/ pc[t] = "body" /\ bexc[t] = NoOut
     \/ pc[t] = "idle"
  /\ nops < MaxOps
  /\ pc' = [pc EXCEPT ![t] = "send"]
  /\ call' = [call EXCEPT ![t] = SendDispatch(method, a)]
  /\ nops' = nops + 1
  /\ users' = users \cup {t}
  /\ last' = NoLast
  /\ UNCHANGED << kwargs, host, connection, inBlock, bexc, invs, orphans, made,
                  disc, lost, entered >>

\* SendResume with a fault: the executor's future is not awaited; the method
\* returns as soon as a worker has taken the call
SendResumeEarly(t) ==
  /\ pc[t] = "send"
  /\ call[t].st \in {"running", "done"}
  /\ orphans' = IF call[t].st = "running"
                  THEN Append(orphans, [op |-> call[t].op, handle |-> call[t].handle,
                                        by |-> "noawait"])
                  ELSE orphans
  /\ pc' = [pc EXCEPT ![t] = IF inBlock[t] THEN "body" ELSE "idle"]
  /\ last' = Ended(t, call[t].method, call[t].marg, inBlock[t], invs[t], ReturnNone,
                   NoOut, NoOut)
  /\ call' = [call EXCEPT ![t] = NoCall]
  /\ invs' = [invs EXCEPT ![t] = << >>]
  /\ UNCHANGED << kwargs, host, connection, inBlock, bexc, made, disc, lost, nops,
                  entered, users >>

\* the await of a send method ends; an exception it raises ends the body
SendResume(t) ==
  /\ pc[t] = "send"
  /\ call[t].st = "done"
  /\ pc' = [pc EXCEPT ![t] = IF inBlock[t] THEN "body" ELSE "idle"]
  /\ bexc' = [bexc EXCEPT ![t] = IF inBlock[t] /\ SendResult(call[t].out).kind = "raise"
                                   THEN SendResult(call[t].out) ELSE @]
  /\ last' = Ended(t, call[t].method, call[t].marg, inBlock[t], invs[t],
                   SendResult(call[t].out), NoOut, NoOut)
  /\ call' = [call EXCEPT ![t] = NoCall]
  /\ invs' = [invs EXCEPT ![t] = << >>]
  /\ UNCHANGED << kwargs, host, connection, inBlock, orphans, made, disc, lost,
                  nops, entered, users >>

\* ---- __aexit__ -------------------------------------------------------------
\* AExitDispatch with a fault: no disconnect when the body raised
AExitDispatchSkipOnError(exc, conn) ==
  IF exc.kind = "raise"
    THEN [Call("aexit", << >>, "disconnect", conn) EXCEPT !.st = "done", !.out = ReturnNone]
    ELSE Call("aexit", << >>, "disconnect", conn)

\* line 46: the bound method self.connection.disconnect goes to the executor,
\* whatever exception (exc) ended the body
AExitDispatch(exc, conn) == Call("aexit", << >>, "disconnect", conn)

\* AExitResult with a fault: __aexit__ returns True
AExitResultSuppress(o) == IF o.kind = "raise" THEN o ELSE Return("bool", "True", 0)

\* lines 44-46: __aexit__ returns None when the await returns, and raises what
\* the await raises
AExitResult(o) == IF o.kind = "raise" THEN o ELSE ReturnNone

\* what the `async with` statement delivers: the exception __aexit__ raised;
\* else the body's exception, since __aexit__ returned a false value; else
\* nothing
WithOutcome(exc, exitres) ==
  IF exitres.kind = "raise" THEN exitres
  ELSE IF exc.kind = "raise" /\ exitres.type = "NoneType" THEN exc
  ELSE ReturnNone

\* the ways the body of task t's block may end now: with the exception its
\* last send raised, or else with one of its own or none
BodyEnds(t) ==
  IF bexc[t] # NoOut THEN {bexc[t]} ELSE {NoOut} \cup BodyExcs

\* __aexit__ is called: by `async with` when the body ends, or directly
AExitCall(t, exc) ==
  /\ \/ pc[t] = "body" /\ exc \in BodyEnds(t)
     \/ pc[t] = "idle" /\ exc = NoOut
  /\ nops < MaxOps
  /\ connection # None
  /\ pc' = [pc EXCEPT ![t] = "aexit"]
  /\ bexc' = [bexc EXCEPT ![t] = exc]
  /\ call' = [call EXCEPT ![t] = AExitDispatch(exc, connection)]
  /\ nops' = nops + 1
  /\ users' = users \cup {t}
  /\ last' = NoLast
  /\ UNCHANGED << kwargs, host, connection, inBlock, invs, orphans, made, disc,
                  lost, entered >>

\* line 46 with self.connection = None: the attribute lookup fails before
\* anything is dispatched
AExitNoHandle(t) ==
  /\ pc[t] = "idle"
  /\ nops < MaxOps
  /\ connection = None
  /\ nops' = nops + 1
  /\ users' = users \cup {t}
  /\ last' = Ended(t, "aexit", << >>, FALSE, << >>, AttributeError, NoOut, NoOut)
  /\ UNCHANGED << kwargs, host, connection, pc, inBlock, bexc, call, invs, orphans,
                  made, disc, lost, entered >>

\* AExitResume with a fault: __aexit__ sets self.connection = None
AExitResumeClears(t) ==
  /\ pc[t] = "aexit"
  /\ call[t].st = "done"
  /\ connection' = None
  /\ pc' = [pc EXCEPT ![t] = "idle"]
  /\ inBlock' = [inBlock EXCEPT ![t] = FALSE]
  /\ bexc' = [bexc EXCEPT ![t] = NoOut]
  /\ last' = Ended(t, "aexit", << >>, inBlock[t], invs[t], AExitResult(call[t].out),
                   bexc[t],
                   IF inBlock[t] THEN WithOutcome(bexc[t], AExitResult(call[t].out))
                                 ELSE NoOut)
  /\ call' = [call EXCEPT ![t] = NoCall]
  /\ invs' = [invs EXCEPT ![t] = << >>]
  /\ UNCHANGED << kwargs, host, orphans, made, disc, lost, nops, entered, users >>

\* AExitResume with a fault: the executor's future is not awaited; __aexit__
\* returns as soon as a worker has taken the disconnect call
AExitResumeEarly(t) ==
  /\ pc[t] = "aexit"
  /\ call[t].st \in {"running", "done"}
  /\ orphans' = IF call[t].st = "running"
                  THEN Append(orphans, [op |-> call[t].op, handle |-> call[t].handle,
                                        by |-> "noawait"])
                  ELSE orphans
  /\ pc' = [pc EXCEPT ![t] = "idle"]
  /\ inBlock' = [inBlock EXCEPT ![t] = FALSE]
  /\ bexc' = [bexc EXCEPT ![t] = NoOut]
  /\ last' = Ended(t, "aexit", << >>, inBlock[t], invs[t], ReturnNone, bexc[t],
                   IF inBlock[t] THEN WithOutcome(bexc[t], ReturnNone) ELSE NoOut)
  /\ call' = [call EXCEPT ![t] = NoCall]
  /\ invs' = [invs EXCEPT ![t] = << >>]
  /\ UNCHANGED << kwargs, host, connection, made, disc, lost, nops, entered, users >>

\* the await of __aexit__ ends
AExitResume(t) ==
  /\ pc[t] = "aexit"
  /\ call[t].st = "done"
  /\ pc' = [pc EXCEPT ![t] = "idle"]
  /\ inBlock' = [inBlock EXCEPT ![t] = FALSE]
  /\ bexc' = [bexc EXCEPT ![t] = NoOut]
  /\ last' = Ended(t, "aexit", << >>, inBlock[t], invs[t], AExitResult(call[t].out),
                   bexc[t],
                   IF inBlock[t] THEN WithOutcome(bexc[t], AExitResult(call[t].out))
                                 ELSE NoOut)
  /\ call' = [call EXCEPT ![t] = NoCall]
  /\ invs' = [invs EXCEPT ![t] = << >>]
  /\ UNCHANGED << kwargs, host, connection, orphans, made, disc, lost, nops,
                  entered, users >>

\* ---- the executor's worker threads and the library --------------------------
\* one invocation of a library operation, as the library sees it
Inv(c) == [op |-> c.op, handle |-> c.handle, cfg |-> c.cfg, arg |-> c.arg, res |-> NoOut]

\* how a library operation may end; newh is the next connection object
LibOutcomes(op, newh) ==
  LibExcs \cup
    CASE op = "connect" -> {Return("ConnectHandler", "", newh)}
      [] op = "disconnect" -> {ReturnNone}
      [] OTHER -> {Return("str", x, 0) : x \in Outputs}

\* line 35: a worker runs `lambda: CH(**self.host)`
StartConnect(t) ==
  /\ call[t].st = "pending"
  /\ call[t].op = "connect"
  /\ LET c == [call[t] EXCEPT !.st = "running", !.cfg = FactoryArgs(host)]
     IN  /\ call' = [call EXCEPT ![t] = c]
         /\ invs' = [invs EXCEPT ![t] = Append(@, Inv(c))]
  /\ last' = NoLast
  /\ UNCHANGED << kwargs, host, connection, pc, inBlock, bexc, orphans, made, disc,
                  lost, nops, entered, users >>

\* line 46: a worker runs the bound method taken from self.connection at dispatch
StartDisconnect(t) ==
  /\ call[t].st = "pending"
  /\ call[t].op = "disconnect"
  /\ LET c == [call[t] EXCEPT !.st = "running"]
     IN  /\ call' = [call EXCEPT ![t] = c]
         /\ invs' = [invs EXCEPT ![t] = Append(@, Inv(c))]
         /\ disc' = [disc EXCEPT ![c.handle] = @ + 1]
  /\ last' = NoLast
  /\ UNCHANGED << kwargs, host, connection, pc, inBlock, bexc, orphans, made, lost,
                  nops, entered, users >>

\* StartSend with a fault: the library is called whatever self.connection holds
StartSendUnchecked(t) ==
  /\ call[t].st = "pending"
  /\ call[t].op \notin {"connect", "disconnect"}
  /\ LET c == [call[t] EXCEPT !.st = "running", !.handle = connection]
     IN  /\ call' = [call EXCEPT ![t] = c]
         /\ invs' = [invs EXCEPT ![t] = Append(@, Inv(c))]
  /\ last' = NoLast
  /\ UNCHANGED << kwargs, host, connection, pc, inBlock, bexc, orphans, made, disc,
                  lost, nops, entered, users >>

\* lines 50, 54, 58: a worker runs `lambda: self.connection.<op>(arg)`; the
\* attribute lookup on None raises before the library is reached
StartSend(t) ==
  /\ call[t].st = "pending"
  /\ call[t].op \notin {"connect", "disconnect"}
  /\ IF connection = None
       THEN /\ call' = [call EXCEPT ![t].st = "done", ![t].out = AttributeError]
            /\ UNCHANGED invs
       ELSE LET c == [call[t] EXCEPT !.st = "running", !.handle = connection]
            IN  /\ call' = [call EXCEPT ![t] = c]
                /\ invs' = [invs EXCEPT ![t] = Append(@, Inv(c))]
  /\ last' = NoLast
  /\ UNCHANGED << kwargs, host, connection, pc, inBlock, bexc, orphans, made, disc,
                  lost, nops, entered, users >>

\* the library operation ends on its worker
Finish(t, o) ==
  /\ call[t].st = "running"
  /\ o \in LibOutcomes(call[t].op, made + 1)
  /\ call' = [call EXCEPT ![t].st = "done", ![t].out = o]
  /\ invs' = [invs EXCEPT ![t][Len(invs[t])].res = o]
  /\ IF o.type = "ConnectHandler"
       THEN made' = made + 1 /\ disc' = Append(disc, 0)
       ELSE UNCHANGED << made, disc >>
  /\ last' = NoLast
  /\ UNCHANGED << kwargs, host, connection, pc, inBlock, bexc, orphans, lost, nops,
                  entered, users >>

\* OrphanFinish with a fault: the connect call itself stores the connection
\* object it made, awaited or not
OrphanFinishStores(i, o) ==
  /\ i \in DOMAIN orphans
  /\ o \in LibOutcomes(orphans[i].op, made + 1)
  /\ orphans' = SubSeq(orphans, 1, i - 1) \o SubSeq(orphans, i + 1, Len(orphans))
  /\ IF o.type = "ConnectHandler"
       THEN /\ made' = made + 1 /\ disc' = Append(disc, 0) /\ lost' = lost \cup {made + 1}
            /\ connection' = made + 1
       ELSE UNCHANGED << made, disc, lost, connection >>
  /\ last' = NoLast
  /\ UNCHANGED << kwargs, host, pc, inBlock, bexc, call, invs, nops, entered, users >>

\* a call whose awaiting task was cancelled ends on its worker; nobody
\* receives its outcome
OrphanFinish(i, o) ==
  /\ i \in DOMAIN orphans
  /\ o \in LibOutcomes(orphans[i].op, made + 1)
  /\ orphans' = SubSeq(orphans, 1, i - 1) \o SubSeq(orphans, i + 1, Len(orphans))
  /\ IF o.type = "ConnectHandler"
       THEN made' = made + 1 /\ disc' = Append(disc, 0) /\ lost' = lost \cup {made + 1}
       ELSE UNCHANGED << made, disc, lost >>
  /\ last' = NoLast
  /\ UNCHANGED << kwargs, host, connection, pc, inBlock, bexc, call, invs, nops,
                  entered, users >>

\* ---- cancellation -----------------------------------------------------------
\* The task is cancelled while suspended in the await of line 35, 46, 50, 54
\* or 58.  A call still pending in the executor's queue is cancelled with it; a
\* running call goes on without a receiver; a finished call's outcome is
\* dropped.  CancelledError is raised at the await; no except clause of the
\* class catches it, so it ends the operation, and the body if there is one.
Cancel(t) ==
  /\ pc[t] \in {"aenter", "send", "aexit"}
  /\ orphans' = IF call[t].st = "running"
                  THEN Append(orphans, [op |-> call[t].op, handle |-> call[t].handle,
                                        by |-> "cancel"])
                  ELSE orphans
  /\ lost' = IF call[t].out.type = "ConnectHandler" THEN lost \cup {call[t].out.h} ELSE lost
  /\ pc' = [pc EXCEPT ![t] = IF pc[t] = "send" /\ inBlock[t] THEN "body" ELSE "idle"]
  /\ inBlock' = [inBlock EXCEPT ![t] = IF pc[t] = "aexit" THEN FALSE ELSE @]
  /\ bexc' = [bexc EXCEPT ![t] = IF pc[t] = "send" /\ inBlock[t] THEN CancelledError ELSE NoOut]
  /\ last' = Ended(t, call[t].method, call[t].marg, inBlock[t], invs[t], CancelledError,
                   IF pc[t] = "aexit" THEN bexc[t] ELSE NoOut,
                   IF pc[t] = "aenter" \/ (pc[t] = "aexit" /\ inBlock[t])
                     THEN CancelledError ELSE NoOut)
  /\ call' = [call EXCEPT ![t] = NoCall]
  /\ invs' = [invs EXCEPT ![t] = << >>]
  /\ UNCHANGED << kwargs, host, connection, made, disc, nops, entered, users >>

\* ---------------------------------------------------------------- behaviours
AnyOutcome ==
  LibOutcomes("connect", made + 1) \cup LibOutcomes("disconnect", 0)
    \cup LibOutcomes("send_command", 0)

Next ==
  \/ \E t \in Tasks : AEnterCall(t)
  \/ \E t \in Tasks : AEnterStore(t)
  \/ \E t \in Tasks : AEnterFail(t)
  \/ \E t \in Tasks, m \in Methods : \E a \in ArgsOf(m) : SendCall(t, m, a)
  \/ \E t \in Tasks : SendResume(t)
  \/ \E t \in Tasks, e \in {NoOut} \cup BodyExcs \cup LibExcs \cup {AttributeError, CancelledError} :
        AExitCall(t, e)
  \/ \E t \in Tasks : AExitNoHandle(t)
  \/ \E t \in Tasks : AExitResume(t)
  \/ \E t \in Tasks : StartConnect(t)
  \/ \E t \in Tasks : StartDisconnect(t)
  \/ \E t \in Tasks : StartSend(t)
  \/ \E t \in Tasks, o \in AnyOutcome : Finish(t, o)
  \/ \E i \in DOMAIN orphans, o \in AnyOutcome : OrphanFinish(i, o)
  \/ \E t \in Tasks : Cancel(t)

Spec == Init /\ [][Next]_vars

\* ---------------------------------------------------------------- properties
TypedTimeout == Raise("aioConnectHandler.TimeoutException", "Connection timed out.")
TypedAuth == Raise("aioConnectHandler.AuthenticationException", "Authentication failed.")

\* the latest step ended a wrapper operation whose await was not cancelled
EndedUncancelled(methods) == last.method \in methods /\ last.out # CancelledError

\* the library operations executing on workers
Running == Cardinality({t \in Tasks : call[t].st = "running"}) + Len(orphans)

\* C1 (as stated): the wrapper holds a stored handle while a task is inside a
\* block whose entry succeeded, and only then: the handle is absent before
\* the first successful entry, and absent again once an exit has returned and
\* no block is open.
C1_HandleIffInsideBlock ==
  /\ \A t \in Tasks : inBlock[t] => connection # None
  /\ ~entered => connection = None
  /\ (/\ last.method = "aexit" /\ last.inBlock /\ last.out = ReturnNone
      /\ \A t \in Tasks : ~inBlock[t]) => connection = None

\* C1 (amended): the wrapper holds a stored handle exactly if some entry on it
\* has succeeded; it is stored throughout every block whose entry succeeded,
\* and exit does not clear it.
C1_HandleIffEntered ==
  /\ (connection # None) <=> entered
  /\ \A t \in Tasks : inBlock[t] => connection # None

\* after a block's exit has returned, with no block open, the handle is still stored
C1_Witness ==
  /\ last.method = "aexit" /\ last.inBlock /\ last.out = ReturnNone
  /\ \A t \in Tasks : ~inBlock[t]
  /\ connection # None

C3_TimeoutTranslated ==
  /\ [](/\ (EndedUncancelled({"aenter"}) /\ Len(last.invs) = 1
              /\ last.invs[1].res.type = "NetmikoTimeoutException") =>
               /\ last.out = TypedTimeout
               /\ last.with = TypedTimeout
               /\ last.invs[1].res.h = 0
        /\ ~entered => connection = None)
  /\ [][\A t \in Tasks : (pc[t] = "aenter" /\ call[t].out.kind = "raise" /\ pc'[t] = "idle")
                            => connection' = connection]_vars

\* an entry on a fresh wrapper has failed with the typed timeout; no handle is stored
C3_Witness ==
  /\ last.method = "aenter" /\ last.out = TypedTimeout
  /\ Len(last.invs) = 1 /\ last.invs[1].res = LibTimeout
  /\ connection = None

\* C4: an entry whose connect call failed with the library's authentication
\* failure raises aioConnectHandler.AuthenticationException("Authentication
\* failed."), and stores nothing: the stored handle is what it was, absent if
\* no entry has succeeded.
C4_AuthTranslated ==
  /\ [](/\ (EndedUncancelled({"aenter"}) /\ Len(last.invs) = 1
              /\ last.invs[1].res.type = "NetMikoAuthenticationException") =>
               /\ last.out = TypedAuth
               /\ last.with = TypedAuth
               /\ last.invs[1].res.h = 0
        /\ (last.method = "aenter" /\ last.out.kind = "raise" /\ ~entered)
              => connection = None)
  /\ [][\A t \in Tasks : (pc[t] = "aenter" /\ call[t].out = LibAuth /\ pc'[t] = "idle")
                            => connection' = connection]_vars

\* an entry on a fresh wrapper has failed with the typed authentication
\* failure; no handle is stored
C4_Witness ==
  /\ last.method = "aenter" /\ last.out = TypedAuth
  /\ Len(last.invs) = 1 /\ last.invs[1].res = LibAuth
  /\ connection = None

\* C5 (as stated): when the body raised E, exit makes its disconnect call and
\* the block delivers E itself, whatever the disconnect call did.
C5_BodyExceptionAlwaysDelivered ==
  (EndedUncancelled({"aexit"}) /\ last.inBlock /\ last.exc.kind = "raise") =>
     /\ Len(last.invs) = 1 /\ last.invs[1].op = "disconnect"
     /\ last.with = last.exc

\* C5 (amended): when the body raised E, exit makes its disconnect call; the
\* block delivers E itself if the disconnect call returned, and the disconnect
\* call's own exception in place of E if it raised.
C5_BodyExceptionUnlessDisconnectRaises ==
  (EndedUncancelled({"aexit"}) /\ last.inBlock /\ last.exc.kind = "raise") =>
     /\ Len(last.invs) = 1 /\ last.invs[1].op = "disconnect"
     /\ last.invs[1].res.kind = "return" => last.with = last.exc
     /\ last.invs[1].res.kind = "raise" => last.with = last.invs[1].res

\* the body raised, disconnect returned, and the block delivered the body's exception
C5_Witness ==
  /\ EndedUncancelled({"aexit"}) /\ last.inBlock
  /\ last.exc \in BodyExcs
  /\ Len(last.invs) = 1 /\ last.invs[1].res = ReturnNone
  /\ last.with = last.exc

\* C6: only __aenter__ translates, and only the library's timeout and
\* authentication exceptions: every other failure of the connect call, and
\* every failure of a send or disconnect call, reaches the caller as the
\* exception the library raised; no send or exit raises a typed exception.
C6_OnlyConnectTranslated ==
  /\ last.method \in Methods \cup {"aexit"} =>
        last.out.type \notin {TypedTimeout.type, TypedAuth.type}
  /\ (EndedUncancelled(Methods \cup {"aexit"}) /\ Len(last.invs) = 1
        /\ last.invs[1].res.kind = "raise") =>
        /\ last.out = last.invs[1].res
        /\ (last.method = "aexit" /\ last.inBlock) => last.with = last.invs[1].res
  /\ (EndedUncancelled({"aenter"}) /\ last.out.kind = "raise") =>
        /\ Len(last.invs) = 1
        /\ IF last.invs[1].res.type \in {LibTimeout.type, LibAuth.type}
             THEN last.out \in {TypedTimeout, TypedAuth}
             ELSE last.out = last.invs[1].res

\* a send method has raised the library's own timeout exception, untranslated
C6_Witness ==
  /\ last.method \in Methods
  /\ Len(last.invs) = 1 /\ last.invs[1].res = LibTimeout
  /\ last.out = LibTimeout

\* C7: inside a block, every send method makes exactly one library call, of
\* its own operation, on the stored handle, with the caller's argument, and
\* hands back what that call returned or raised; send_com and send_com_timing
\* reach different operations.
C7_SendForwardsOnce ==
  (EndedUncancelled(Methods) /\ last.inBlock) =>
     /\ Len(last.invs) = 1
     /\ last.invs[1].op =
          CASE last.method = "send_com" -> "send_command"
            [] last.method = "send_conf_set" -> "send_config_set"
            [] last.method = "send_com_timing" -> "send_command_timing"
     /\ last.invs[1].arg = last.marg
     /\ last.invs[1].handle # None
     /\ users = {last.task} => last.invs[1].handle = connection
     /\ last.out = last.invs[1].res

\* send_com_timing, inside a block, has returned the text of its timing-based call
C7_Witness ==
  /\ last.method = "send_com_timing" /\ last.inBlock
  /\ Len(last.invs) = 1 /\ last.invs[1].op = "send_command_timing"
  /\ last.out \in {Return("str", x, 0) : x \in Outputs}

\* C8: the sequence send_conf_set is given is the sequence send_config_set
\* receives, element for element, in one call: at dispatch, on the worker,
\* and when the method ends.
C8_ConfSetVerbatim ==
  /\ \A t \in Tasks : call[t].method = "send_conf_set" =>
        /\ call[t].arg = call[t].marg
        /\ Len(invs[t]) <= 1
        /\ \A i \in DOMAIN invs[t] :
              invs[t][i].op = "send_config_set" /\ invs[t][i].arg = call[t].marg
  /\ last.method = "send_conf_set" =>
        /\ Len(last.invs) <= 1
        /\ \A i \in DOMAIN last.invs :
              /\ last.invs[i].op = "send_config_set"
              /\ Len(last.invs[i].arg) = Len(last.marg)
              /\ \A k \in DOMAIN last.marg : last.invs[i].arg[k] = last.marg[k]

\* send_conf_set has ended after handing on a sequence with a repetition
C8_Witness ==
  /\ last.method = "send_conf_set"
  /\ last.marg = << "show ver", "show run", "show ver" >>
  /\ Len(last.invs) = 1 /\ last.invs[1].arg = last.marg
  /\ last.out.kind = "return"

\* C9 (as stated): at most one blocking call of the instance is executing at
\* any moment, however the tasks interleave.
C9_OneCallAtATime == Running <= 1

\* C9 (amended): while a single task uses the instance and no call left
\* behind by a cancelled await is still executing, at most one blocking call
\* of the instance is executing.
C9_OneCallPerSequentialCaller ==
  (Cardinality(users) <= 1 /\ \A i \in DOMAIN orphans : orphans[i].by # "cancel")
     => Running <= 1

\* a single task's call is executing
C9_Witness ==
  /\ users = {"t1"}
  /\ orphans = << >>
  /\ call["t1"].st = "running"

\* C10: the constructor stores the configuration it was given, leaves the
\* handle absent and calls nothing; only __aenter__ calls the factory, once
\* per entry, with the stored configuration.
C10_ConfigVerbatim ==
  /\ host = kwargs
  /\ nops = 0 => /\ connection = None /\ made = 0 /\ orphans = << >>
                 /\ \A t \in Tasks : call[t] = NoCall /\ invs[t] = << >>
  /\ \A t \in Tasks : \A i \in DOMAIN invs[t] :
        invs[t][i].op = "connect" =>
           /\ call[t].method = "aenter" /\ Len(invs[t]) = 1
           /\ invs[t][i].cfg = kwargs
  /\ \A t \in Tasks : (call[t].method = "aenter" /\ call[t].st \in {"running", "done"}) =>
        Len(invs[t]) = 1 /\ invs[t][1].op = "connect"
  /\ EndedUncancelled({"aenter"}) =>
        /\ Len(last.invs) = 1 /\ last.invs[1].op = "connect"
        /\ last.invs[1].cfg = kwargs
  /\ last.method # "aenter" => \A i \in DOMAIN last.invs : last.invs[i].op # "connect"

\* an entry has succeeded after one factory call with the caller's configuration
C10_Witness ==
  /\ last.method = "aenter" /\ last.out.kind = "return"
  /\ Len(last.invs) = 1 /\ last.invs[1].op = "connect"
  /\ last.invs[1].cfg = kwargs /\ kwargs \in Configs

\* C11: with a single task calling the instance, and no call left behind by
\* a cancelled await, every operation ends only after each library call made
\* for it has ended, and while a call is queued or executing no earlier call
\* is still executing: the calls start and end in the order issued.
C11_SequentialCallsInOrder ==
  /\ (last.method # "none" /\ last.out # CancelledError) =>
        \A i \in DOMAIN last.invs : last.invs[i].res # NoOut
  /\ (Cardinality(users) <= 1 /\ \A i \in DOMAIN orphans : orphans[i].by # "cancel") =>
        /\ \A t \in Tasks : call[t].st \in {"pending", "running"} => orphans = << >>
        /\ \A t \in Tasks : pc[t] \in {"idle", "body"} => orphans = << >>
        /\ Running <= 1

\* a single task's third operation is executing, the two before it having ended
C11_Witness ==
  /\ users = {"t1"}
  /\ nops = 3
  /\ call["t1"].st = "running" /\ call["t1"].op = "disconnect"
  /\ orphans = << >>
  /\ Running = 1

\* C12: an entry whose connect call failed, or whose await was cancelled,
\* raises, and its task is then outside any block with nothing dispatched; a
\* task gets inside a block only by an entry whose connect call returned.
C12_FailedEntrySkipsBodyAndExit ==
  /\ [](/\ (last.method = "aenter" /\ Len(last.invs) = 1
              /\ last.invs[1].res.kind = "raise") => last.out.kind = "raise"
        /\ (last.method = "aenter" /\ last.out.kind = "raise") =>
              /\ ~inBlock[last.task]
              /\ pc[last.task] = "idle"
              /\ call[last.task] = NoCall
        /\ \A t \in Tasks : inBlock[t] => pc[t] \in {"body", "send", "aexit"})
  /\ [][\A t \in Tasks :
          /\ (~inBlock[t] /\ inBlock'[t]) =>
                pc[t] = "aenter" /\ call[t].st = "done" /\ call[t].out.kind = "return"
          /\ (pc[t] = "aenter" /\ pc'[t] # "aenter" /\ call[t].out.kind # "return") =>
                pc'[t] = "idle" /\ ~inBlock'[t] /\ call'[t] = NoCall /\ disc' = disc]_vars

\* an entry has failed with an exception __aenter__ does not translate; its
\* task is idle, outside any block
C12_Witness ==
  /\ last.method = "aenter" /\ last.out = LibOther
  /\ pc[last.task] = "idle" /\ ~inBlock[last.task]
  /\ call[last.task] = NoCall

\* C13: a send method or __aexit__ that ends while no entry has ever
\* succeeded has raised (AttributeError, unless its await was cancelled) and
\* has reached no library operation; the handle is still absent.
C13_NoHandleNoLibraryCall ==
  (last.method \in Methods \cup {"aexit"} /\ ~entered) =>
     /\ last.out.kind = "raise"
     /\ last.out # CancelledError => last.out = AttributeError
     /\ last.invs = << >>
     /\ connection = None

\* send_conf_set has failed on a wrapper never entered
C13_Witness ==
  /\ last.method = "send_conf_set" /\ ~entered
  /\ last.out = AttributeError
  /\ last.invs = << >>
  /\ connection = None

\* C14: an entry cancelled while its connect call is executing leaves that
\* call executing; a connection object made by a connect call nobody awaits
\* any more is never stored in the wrapper and never disconnected by it.
C14_CancelledEntryLeaksConnection ==
  /\ (last.method = "aenter" /\ last.out = CancelledError /\ Len(last.invs) = 1) =>
        /\ last.invs[1].res = NoOut =>
              \E i \in DOMAIN orphans : orphans[i].op = "connect" /\ orphans[i].by = "cancel"
        /\ last.invs[1].res.type = "ConnectHandler" =>
              last.invs[1].res.h \in lost /\ connection # last.invs[1].res.h
        /\ ~inBlock[last.task] /\ pc[last.task] = "idle"
  /\ \A h \in lost :
        /\ h \in DOMAIN disc
        /\ connection # h
        /\ disc[h] = 0
        /\ \A t \in Tasks : call[t].handle # h
        /\ \A i \in DOMAIN orphans : orphans[i].handle # h

\* the connect call of a cancelled entry has made a connection object; it is
\* neither stored nor disconnected
C14_Witness ==
  /\ lost = {1}
  /\ orphans = << >>
  /\ disc = << 0 >>
  /\ connection = None
  /\ \A t \in Tasks : pc[t] = "idle"

\* C15: only an entry whose connect call returned writes the stored handle,
\* and nothing writes the stored configuration: failed entries, sends and
\* exits leave both as they were.
C15_OnlySuccessfulEntryStores ==
  [][/\ host' = host
     /\ connection' # connection =>
          \E t \in Tasks : /\ pc[t] = "aenter" /\ pc'[t] = "body"
                           /\ call[t].st = "done"
                           /\ call[t].out.type = "ConnectHandler"
                           /\ connection' = call[t].out.h
     /\ \A t \in Tasks : (pc[t] \in {"send", "aexit"} /\ pc'[t] # pc[t]) =>
                            connection' = connection
     /\ \A t \in Tasks : (pc[t] = "aenter" /\ pc'[t] = "idle") =>
                            connection' = connection]_vars

\* a re-entry after an ended session has failed; the earlier handle is still stored
C15_Witness ==
  /\ last.method = "aenter" /\ last.out.kind = "raise" /\ last.out # CancelledError
  /\ \A t \in Tasks : ~inBlock[t]
  /\ connection = 1
  /\ disc = << 1 >>
  /\ host = kwargs

====
